---- MODULE Spec2Model ----
(***************************************************************************)
(* Random-walk Metropolis sampler of src/pytorch_sampler.py.               *)
(*                                                                         *)
(* The generator rw_metropolis_sampler is a state machine: its frame       *)
(* (position, log_prob and the locals of the loop body) is the state, and  *)
(* each next() of the consumer runs it to the following yield.  Tensors    *)
(* that leave the generator are objects of a small heap, so that a         *)
(* reference handed to the consumer can be told from a copy.               *)
(*                                                                         *)
(* Numbers.  Positions and perturbations are integers (one unit is one     *)
(* random-walk step).  Log-densities are IEEE values: a finite integer, in *)
(* units of ln 2, or NaN, +Inf, -Inf, with IEEE subtraction and            *)
(* comparison.  A uniform draw is 0.0 or a power 2^-k, whose logarithm is  *)
(* exactly -k in those units.                                              *)
(***************************************************************************)
EXTENDS Integers, FiniteSets, Sequences, TLC

VARIABLES
    logpdf,            \* the target the caller passed (one of Targets)
    initial_position,  \* the value the caller passed as initial_position
    tensors,           \* heap: "arg" the caller's tensor, "where" the result of line 37
    position,          \* the object the generator's `position` is bound to
    log_prob,          \* the generator's log_prob (a tensor value)
    move_proposals,    \* locals of the loop body, lines 29-35
    proposal,
    proposal_log_prob,
    log_uniform,
    do_accept,
    pc,                \* "created" | "yielded" | "raised"
    outcome,           \* what the last next() gave its caller: "none" | "draw" | "error"
    n_yield,           \* draws yielded so far
    n_normal,          \* calls of normal_0_1.sample so far
    n_rand,            \* calls of torch.rand so far
    sample,            \* the consumer's reference to the last draw it received
    solo,              \* per chain c: a sampler run on column c alone
    n_samples,         \* driver: args.samples
    i,                 \* driver: enumerate index
    dpc                \* driver: "off" | "looping" | "done"

input_vars == <<logpdf, initial_position>>
driver_vars == <<n_samples, i, dpc>>
vars == <<logpdf, initial_position, tensors, position, log_prob, move_proposals,
          proposal, proposal_log_prob, log_uniform, do_accept, pc, outcome,
          n_yield, n_normal, n_rand, sample, solo, n_samples, i, dpc>>

(***************************************************************************)
(* Bounds of the model.                                                    *)
(***************************************************************************)
\* proposal steps a passive consumer pulls (it takes MaxSteps + 1 draws)
MaxSteps == 2
\* largest --samples the driver is run with
MaxSamples == 1

\* shape of initial_position: rows (dimensions) and columns (chains)
Dims == 1..2
Chains == 1..2
\* values normal_0_1.sample(shape) can return: every cell moves by one unit,
\* up or down; the patterns share columns, so that one chain's perturbation
\* occurs with several perturbations of the other chain
MoveSamples ==
    {[cell \in Dims \X Chains |-> 1],
     [cell \in Dims \X Chains |-> IF cell[2] = 1 THEN 1 ELSE -1],
     [cell \in Dims \X Chains |-> IF cell[2] = 1 THEN -1 ELSE 1],
     [cell \in Dims \X Chains |-> IF cell[1] = 1 THEN 1 ELSE -1]}
\* values torch.rand can give a cell: 0 is the draw 0.0, k > 0 the draw 2^-k
UniformDraws == {0, 1}
\* --samples values the driver is run with (argparse's int takes a sign)
SampleArgs == -1..MaxSamples

(***************************************************************************)
(* IEEE values.                                                            *)
(***************************************************************************)
Fin(n) == [k |-> "fin", v |-> n]
NaN == [k |-> "nan", v |-> 0]
PInf == [k |-> "inf", v |-> 1]
NInf == [k |-> "inf", v |-> -1]
IsFin(a) == a.k = "fin"

\* a - b
Sub(a, b) ==
    IF a.k = "nan" \/ b.k = "nan" THEN NaN
    ELSE IF a.k = "inf" THEN (IF b.k = "inf" /\ b.v = a.v THEN NaN ELSE a)
    ELSE IF b.k = "inf" THEN (IF b.v = 1 THEN NInf ELSE PInf)
    ELSE Fin(a.v - b.v)

\* a comparison that holds as soon as one side is NaN
LtNaNTrue(a, b) ==
    IF a.k = "nan" \/ b.k = "nan" THEN TRUE
    ELSE IF a.k = "inf" THEN a.v = -1 /\ ~(b.k = "inf" /\ b.v = -1)
    ELSE IF b.k = "inf" THEN b.v = 1
    ELSE a.v < b.v

\* a < b
Lt(a, b) ==
    IF a.k = "nan" \/ b.k = "nan" THEN FALSE
    ELSE IF a.k = "inf" THEN a.v = -1 /\ ~(b.k = "inf" /\ b.v = -1)
    ELSE IF b.k = "inf" THEN b.v = 1
    ELSE a.v < b.v

\* torch.log of a uniform draw, in units of ln 2
TorchLog(u) == IF u = 0 THEN NInf ELSE Fin(-u)

(***************************************************************************)
(* Tensors.  A matrix is a function on Dims \X CS (CS the chains of the    *)
(* batch); a tensor value carries its rank: rank 1 is indexed by chain,    *)
(* rank 2 by cell.                                                         *)
(***************************************************************************)
Unset == <<>>
Cells(CS) == Dims \X CS
Column(x, c) == [d \in Dims |-> x[<<d, c>>]]
Vec(f) == [ndim |-> 1, at |-> f]
Mat(f) == [ndim |-> 2, at |-> f]
\* the element a rank-1 or rank-2 tensor contributes at a cell when broadcast
\* against shape (D, C): a (C,) tensor is repeated along the rows
At(t, cell) == IF t.ndim = 1 THEN t.at[cell[2]] ELSE t.at[cell]

(***************************************************************************)
(* Targets: the logpdf functions a caller passes.                          *)
(***************************************************************************)
\* The mixture's parameters, one entry per row of the position: the leading
\* components of loc, scale and log(weights), rounded to integers.
loc == <<-2, 0>>
scale == <<1, 1>>
log_weights == <<-2, -2>>
Max(S) == CHOOSE m \in S : \A s \in S : s <= m
Sq(n) == n * n
Sum2(col) == Sq(col[1]) + Sq(col[2])

\* Normal(loc, scale).log_prob(x) of row k, without its additive constant
normal_log_prob(k, v) == -(Sq(v - loc[k]) \div (2 * Sq(scale[k])))

\* mixture_logpdf on one column: row k is scored against component k, the
\* rows are reduced by logsumexp (here: its leading term, the maximum) and
\* the result is negated
mixture_logpdf(col) ==
    Fin(-Max({log_weights[k] + normal_log_prob(k, col[k]) : k \in Dims}))

\* a standard normal log-density
standard_normal(col) == Fin(-Sum2(col))

\* a target with numerical faults: NaN, +Inf and -Inf on parts of its domain
degenerate(col) ==
    IF col[1] >= 1 /\ col[2] >= 1 THEN PInf
    ELSE IF col[1] >= 1 /\ col[2] <= -1 THEN NaN
    ELSE IF col[1] <= -1 THEN NInf
    ELSE Fin(-Sum2(col))

\* a target that raises on a part of its domain
RaisesAt(col) == col[1] <= -1 /\ col[2] <= -1

Targets == {"mixture_logpdf", "standard_normal", "degenerate", "raising"}

TargetRaises(f, col) == f = "raising" /\ RaisesAt(col)

TargetValue(f, col) ==
    CASE f = "mixture_logpdf" -> mixture_logpdf(col)
      [] f = "standard_normal" -> standard_normal(col)
      [] f = "degenerate" -> degenerate(col)
      [] f = "raising" -> standard_normal(col)

\* logpdf(x): one batched call; an error for any chain is an error of the call
LogpdfRaises(f, x, CS) == \E c \in CS : TargetRaises(f, Column(x, c))
LogpdfValue(f, x, CS) == Vec([c \in CS |-> TargetValue(f, Column(x, c))])

(***************************************************************************)
(* One proposal step, lines 29-38, on a batch of chains CS.                *)
(***************************************************************************)
\* line 30
Add(pos, move) == [cell \in DOMAIN pos |-> pos[cell] + move[cell]]

\* line 33
LogUniform(u) == [cell \in DOMAIN u |-> TorchLog(u[cell])]

\* an accept test with the inequality the other way round
DoAcceptReversed(lu, plp, lp, CS) ==
    [cell \in Cells(CS) |-> Lt(Sub(At(plp, cell), At(lp, cell)), lu[cell])]

\* an accept mask that is shared by the cells of a row
DoAcceptAnyChain(lu, plp, lp, CS) ==
    [cell \in Cells(CS) |->
        \E c \in CS : Lt(lu[<<cell[1], c>>],
                         Sub(At(plp, <<cell[1], c>>), At(lp, <<cell[1], c>>)))]

\* line 35: (D, C) < (C,) - (C,) or (D, C), elementwise after broadcasting
DoAccept(lu, plp, lp, CS) ==
    [cell \in Cells(CS) |-> Lt(lu[cell], Sub(At(plp, cell), At(lp, cell)))]

\* lines 37-38: torch.where(mask, a, b), elementwise after broadcasting
WhereMat(mask, a, b) == [cell \in DOMAIN mask |-> IF mask[cell] THEN a[cell] ELSE b[cell]]
WhereTensor(mask, a, b) ==
    Mat([cell \in DOMAIN mask |-> IF mask[cell] THEN At(a, cell) ELSE At(b, cell)])

\* a step that has already moved to the proposal when logpdf raises
AbortedMoved(pos, lp, move, prop) ==
    [raised |-> TRUE, position |-> prop, log_prob |-> lp,
     move_proposals |-> move, proposal |-> prop]

\* the frame when logpdf raises at line 31: only lines 29-30 have run
Aborted(pos, lp, move, prop) ==
    [raised |-> TRUE, position |-> pos, log_prob |-> lp,
     move_proposals |-> move, proposal |-> prop]

\* lines 29-38 from position pos and log_prob lp, with the values the two
\* random calls return
SamplerStep(f, pos, lp, move, u, CS) ==
    LET prop == Add(pos, move) IN
    IF LogpdfRaises(f, prop, CS) THEN Aborted(pos, lp, move, prop)
    ELSE LET plp == LogpdfValue(f, prop, CS)
             lu == LogUniform(u)
             acc == DoAccept(lu, plp, lp, CS)
         IN [raised |-> FALSE,
             position |-> WhereMat(acc, prop, pos),
             log_prob |-> WhereTensor(acc, plp, lp),
             move_proposals |-> move, proposal |-> prop,
             proposal_log_prob |-> plp, log_uniform |-> lu, do_accept |-> acc]

PositionVal == tensors[position]

(***************************************************************************)
(* The generator.                                                          *)
(***************************************************************************)
\* a generator that takes a proposal step before its first yield
GenStartStepsFirst ==
    /\ pc = "created"
    /\ ~LogpdfRaises(logpdf, tensors.arg, Chains)
    /\ \E move \in MoveSamples, u \in [Cells(Chains) -> UniformDraws] :
         \E r \in {SamplerStep(logpdf, tensors.arg,
                               LogpdfValue(logpdf, tensors.arg, Chains), move, u, Chains)} :
            /\ ~r.raised
            /\ tensors' = [tensors EXCEPT !.where = r.position]
            /\ position' = "where"
            /\ log_prob' = r.log_prob
            /\ move_proposals' = r.move_proposals
            /\ proposal' = r.proposal
            /\ proposal_log_prob' = r.proposal_log_prob
            /\ log_uniform' = r.log_uniform
            /\ do_accept' = r.do_accept
    /\ pc' = "yielded"
    /\ outcome' = "draw"
    /\ n_yield' = 1
    /\ n_normal' = n_normal + 1
    /\ n_rand' = n_rand + 1

\* the first next(): lines 23-25
GenStart ==
    /\ pc = "created"
    /\ position' = "arg"
    /\ IF LogpdfRaises(logpdf, tensors.arg, Chains)
       THEN /\ pc' = "raised"
            /\ outcome' = "error"
            /\ UNCHANGED <<log_prob, n_yield>>
       ELSE /\ log_prob' = LogpdfValue(logpdf, tensors.arg, Chains)
            /\ pc' = "yielded"
            /\ outcome' = "draw"
            /\ n_yield' = n_yield + 1
    /\ UNCHANGED <<tensors, move_proposals, proposal, proposal_log_prob,
                   log_uniform, do_accept, n_normal, n_rand>>

\* a later next(): lines 29-39, with the values the two random calls return.
\* When logpdf raises, the exception leaves the generator with the frame as
\* lines 29-30 left it, and the generator is finished.
GenStepWith(move, u) ==
    /\ pc = "yielded"
    /\ \E r \in {SamplerStep(logpdf, PositionVal, log_prob, move, u, Chains)} :
         /\ move_proposals' = r.move_proposals
         /\ proposal' = r.proposal
         /\ n_normal' = n_normal + 1
         /\ IF r.raised
            THEN /\ pc' = "raised"
                 /\ outcome' = "error"
                 /\ tensors' = [tensors EXCEPT ![position] = r.position]
                 /\ log_prob' = r.log_prob
                 /\ UNCHANGED <<position, proposal_log_prob, log_uniform, do_accept,
                                n_rand, n_yield>>
            ELSE /\ proposal_log_prob' = r.proposal_log_prob
                 /\ log_uniform' = r.log_uniform
                 /\ do_accept' = r.do_accept
                 /\ n_rand' = n_rand + 1
                 /\ tensors' = [tensors EXCEPT !.where = r.position]
                 /\ position' = "where"
                 /\ log_prob' = r.log_prob
                 /\ pc' = "yielded"
                 /\ outcome' = "draw"
                 /\ n_yield' = n_yield + 1

GenStep == \E move \in MoveSamples, u \in [Cells(Chains) -> UniformDraws] : GenStepWith(move, u)

\* the consumer binds what next() returned
Receive == sample' = IF outcome' = "draw" THEN position' ELSE sample

(***************************************************************************)
(* Spec: the generator under a consumer that only pulls draws.             *)
(***************************************************************************)
Zeros == [cell \in Cells(Chains) |-> 0]
InitialPositions ==
    {Zeros,
     [cell \in Cells(Chains) |-> IF cell[1] = 1 THEN cell[2] - 2 ELSE 1],
     [cell \in Cells(Chains) |-> -1]}

GenInit ==
    /\ tensors = [arg |-> initial_position, where |-> Unset]
    /\ position = "unbound"
    /\ log_prob = Unset
    /\ move_proposals = Unset
    /\ proposal = Unset
    /\ proposal_log_prob = Unset
    /\ log_uniform = Unset
    /\ do_accept = Unset
    /\ pc = "created"
    /\ outcome = "none"
    /\ n_yield = 0
    /\ n_normal = 0
    /\ n_rand = 0
    /\ sample = "none"
    /\ solo = Unset

Init ==
    /\ logpdf \in Targets
    /\ initial_position \in InitialPositions
    /\ GenInit
    /\ n_samples = 0 /\ i = 0 /\ dpc = "off"

Start == GenStart /\ Receive /\ UNCHANGED <<input_vars, solo, driver_vars>>

Step ==
    /\ n_normal < MaxSteps
    /\ GenStep /\ Receive /\ UNCHANGED <<input_vars, solo, driver_vars>>

Next == Start \/ Step

Spec == Init /\ [][Next]_vars

(***************************************************************************)
(* AliasSpec: a consumer that also writes into the draw it holds.          *)
(***************************************************************************)
WriteValues == {7}
WriteCells == {<<1, 1>>}

\* sample[d, c] = v, in place, on the object the consumer received
WriteDraw ==
    /\ outcome = "draw"
    /\ \E cell \in WriteCells, v \in WriteValues :
         tensors' = [tensors EXCEPT ![sample][cell] = v]
    /\ UNCHANGED <<input_vars, position, log_prob, move_proposals, proposal,
                   proposal_log_prob, log_uniform, do_accept, pc, outcome,
                   n_yield, n_normal, n_rand, sample, solo, driver_vars>>

AliasInit ==
    /\ logpdf = "standard_normal"
    /\ initial_position \in InitialPositions
    /\ GenInit
    /\ n_samples = 0 /\ i = 0 /\ dpc = "off"

AliasNext == Start \/ Step \/ WriteDraw

AliasSpec == AliasInit /\ [][AliasNext]_vars

(***************************************************************************)
(* ChainSpec: beside the batch, every chain c is also run alone, as a      *)
(* sampler on the one-column matrix of chain c that is given chain c's     *)
(* column of every random draw of the batch.                               *)
(***************************************************************************)
Restrict(x, c) == [cell \in Cells({c}) |-> x[cell]]

SoloStart(c) ==
    LET x0 == Restrict(initial_position, c) IN
    IF LogpdfRaises(logpdf, x0, {c})
    THEN [raised |-> TRUE, position |-> x0, log_prob |-> Unset]
    ELSE [raised |-> FALSE, position |-> x0, log_prob |-> LogpdfValue(logpdf, x0, {c})]

SoloStep(c, move, u) ==
    IF solo[c].raised THEN solo[c]
    ELSE LET r == SamplerStep(logpdf, solo[c].position, solo[c].log_prob,
                              Restrict(move, c), Restrict(u, c), {c})
         IN [raised |-> r.raised, position |-> r.position, log_prob |-> r.log_prob]

ChainStart ==
    /\ GenStart /\ Receive
    /\ solo' = [c \in Chains |-> SoloStart(c)]
    /\ UNCHANGED <<input_vars, driver_vars>>

ChainStep ==
    /\ n_normal < MaxSteps
    /\ \E move \in MoveSamples, u \in [Cells(Chains) -> UniformDraws] :
         /\ GenStepWith(move, u)
         /\ solo' = [c \in Chains |-> SoloStep(c, move, u)]
    /\ Receive
    /\ UNCHANGED <<input_vars, driver_vars>>

ChainNext == ChainStart \/ ChainStep

ChainSpec == Init /\ [][ChainNext]_vars

(***************************************************************************)
(* DriverSpec: the __main__ block, lines 67-84.                            *)
(***************************************************************************)
\* a loop that stops one draw earlier
BreakLoopAtEqual(idx, n) == idx >= n

\* line 83
BreakLoop(idx, n) == idx > n

\* lines 74-81: the arguments are parsed, the generator is created
DriverInit ==
    /\ logpdf = "mixture_logpdf"
    /\ initial_position = Zeros
    /\ GenInit
    /\ n_samples \in SampleArgs
    /\ i = 0
    /\ dpc = "looping"

\* lines 82-84: one iteration of the for loop: enumerate's next(), then the test
DriverIteration ==
    /\ dpc = "looping"
    /\ (GenStart \/ GenStep)
    /\ Receive
    /\ IF outcome' = "draw"
       THEN /\ i' = IF n_yield = 0 THEN 0 ELSE i + 1
            /\ dpc' = IF BreakLoop(i', n_samples) THEN "done" ELSE "looping"
       ELSE /\ i' = i
            /\ dpc' = "failed"
    /\ UNCHANGED <<input_vars, solo, n_samples>>

DriverNext == DriverIteration

DriverSpec == DriverInit /\ [][DriverNext]_vars

(***************************************************************************)
(* Properties.                                                             *)
(***************************************************************************)
\* a step that ran to its yield (torch.rand was called)
Committed == n_rand' = n_rand + 1
ColumnIs(x, y, c) == \A d \in Dims : x[<<d, c>>] = y[<<d, c>>]
NonFinite(v) == v.k # "fin"

\* C1: at every yield the stored log-density is a vector with one value per
\* chain, and its value for chain c is LogDensity of the current column c.
C1_LogProbIsLogDensityOfPosition ==
    pc = "yielded" =>
        /\ log_prob.ndim = 1
        /\ \A c \in Chains : log_prob.at[c] = TargetValue(logpdf, Column(PositionVal, c))

\* C2: after a step, every chain's column of the position is the whole
\* proposal column or the whole previous column.
C2_AcceptIsPerChain ==
    [][Committed =>
         \A c \in Chains : \/ ColumnIs(PositionVal', proposal', c)
                           \/ ColumnIs(PositionVal', PositionVal, c)]_vars

\* C3: a write of the consumer into the draw it holds leaves the sampler's
\* position as it was.
C3_DrawIsSnapshot ==
    [][WriteDraw => PositionVal' = PositionVal]_vars

\* C4 as stated: a uniform draw of exactly 0 against a finite difference is a
\* rejection.
C4_ZeroDrawRejects ==
    [][Committed =>
         \A cell \in Cells(Chains) :
            (/\ log_uniform'[cell] = NInf
             /\ IsFin(Sub(At(proposal_log_prob', cell), At(log_prob, cell))))
            => (~do_accept'[cell] /\ PositionVal'[cell] = PositionVal[cell])]_vars

\* C4 amended: a uniform draw of exactly 0 against a finite difference is an
\* acceptance (-inf is below every finite number): the cell takes the proposal
\* and the proposal's log-density, and the step yields.
C4_ZeroDrawAccepts ==
    [][Committed =>
         /\ pc' = "yielded"
         /\ \A cell \in Cells(Chains) :
              (/\ log_uniform'[cell] = NInf
               /\ IsFin(Sub(At(proposal_log_prob', cell), At(log_prob, cell))))
              => /\ do_accept'[cell]
                 /\ PositionVal'[cell] = proposal'[cell]
                 /\ At(log_prob', cell) = At(proposal_log_prob', cell)]_vars

\* C4 witness: from the zero matrix under the standard normal target, a cell
\* whose draw was 0 accepted a proposal of lower finite log-density.
C4_Witness ==
    /\ pc = "yielded" /\ n_rand = 1
    /\ logpdf = "standard_normal" /\ initial_position = Zeros
    /\ \E cell \in Cells(Chains) :
         /\ log_uniform[cell] = NInf
         /\ do_accept[cell]
         /\ At(proposal_log_prob, cell) = Fin(-2)
         /\ PositionVal[cell] = proposal[cell]

\* what a step leaves of chain c when it does not accept for it
ChainKept(c) ==
    \A d \in Dims : /\ PositionVal'[<<d, c>>] = PositionVal[<<d, c>>]
                    /\ At(log_prob', <<d, c>>) = At(log_prob, <<d, c>>)

C6_DriverPullsSamplesPlusTwo ==
    n_samples >= 0 =>
        /\ pc # "raised" /\ dpc \in {"looping", "done"}
        /\ n_yield <= n_samples + 2
        /\ (dpc = "done") = (n_yield = n_samples + 2)
        /\ dpc = "looping" => ENABLED DriverIteration

\* C6 witness: the run with the largest --samples has broken out of the loop.
C6_Witness == dpc = "done" /\ n_samples = MaxSamples /\ n_yield = MaxSamples + 2

\* C7: with a negative --samples no draw is consumed and the run does not
\* complete normally.
C7_NegativeSamplesRejected ==
    n_samples < 0 => (n_yield = 0 /\ dpc # "done")

\* C8: when logpdf raises in a step, the caller of next() gets the error, no
\* draw is yielded, and position and log_prob are as before the step.
C8_RaiseAbortsWholeStep ==
    [][(pc = "yielded" /\ pc' = "raised") =>
         /\ outcome' = "error"
         /\ n_yield' = n_yield /\ sample' = sample
         /\ position' = position /\ PositionVal' = PositionVal
         /\ log_prob' = log_prob
         /\ n_normal' = n_normal + 1 /\ n_rand' = n_rand]_vars

\* C8 witness: logpdf has raised in the second step, after a first step in
\* which some cell accepted.
C8_Witness ==
    /\ pc = "raised" /\ outcome = "error" /\ n_normal = 2 /\ n_yield = 2
    /\ \E cell \in Cells(Chains) : do_accept[cell]

\* C9: while the batch runs, the position of every chain c is the position of
\* the sampler that runs chain c alone on chain c's initial column,
\* perturbations and uniform draws.
C9_ChainsDoNotInterfere ==
    pc = "yielded" =>
        \A c \in Chains :
            /\ ~solo[c].raised
            /\ ColumnIs(PositionVal, solo[c].position, c)

\* C9 witness: after two steps the two chains have accepted differently.
C9_Witness ==
    /\ pc = "yielded" /\ n_rand = 2
    /\ \E d \in Dims : do_accept[<<d, 1>>] /\ ~do_accept[<<d, 2>>]
    /\ ~ColumnIs(PositionVal, initial_position, 1)
    /\ ColumnIs(PositionVal, solo[1].position, 1)

\* C10: no random number is drawn before the first draw is yielded, and the
\* first draw is the caller's initial position.
C10_InitialDrawFirst ==
    /\ n_yield = 0 => (n_normal = 0 /\ n_rand = 0)
    /\ (n_yield = 1 /\ pc = "yielded") =>
          /\ n_normal = 0 /\ n_rand = 0
          /\ sample = "arg"
          /\ tensors[sample] = initial_position

\* C10 witness: the first draw of a non-zero initial position has been yielded.
C10_Witness ==
    /\ n_yield = 1 /\ pc = "yielded" /\ outcome = "draw"
    /\ initial_position # Zeros /\ tensors[sample] = initial_position

====
